---- MODULE Spec2Model ----
(***************************************************************************)
(* One run of the calendar assistant (src/main.py, src/config.py):         *)
(* configuration load, main(), run_agent(), interpret_user_request(),      *)
(* create_event() / get_events() and the reply formatting.                 *)
(*                                                                         *)
(* Python values are records [ty, s, n, d]: ty is the Python type, s the   *)
(* text of a str, n a number (for a str produced by datetime.isoformat(),  *)
(* the instant it renders, in hours), d the items of a dict (a function    *)
(* from keys to values) or of a list (a sequence).                         *)
(* Text that the program inspects character by character (the user         *)
(* message) is a sequence of one-character strings; the language model's   *)
(* reply is a sequence of lexical tokens.                                  *)
(***************************************************************************)
EXTENDS Integers, Sequences, FiniteSets

VARIABLES env, cfg, pc, user_message, clock, text, data, net, r, result,
          events, reply, printed, error

vars == <<env, cfg, pc, user_message, clock, text, data, net, r, result,
          events, reply, printed, error>>

-----------------------------------------------------------------------------
(* Bounds of the model *)

\* longest argument list given on the command line
MaxArgs == 1
\* longest language-model reply enumerated exhaustively, in tokens
MaxTextLen == 2
\* most events in a calendar listing
MaxEvents == 2
\* latest hour at which the interpreter first reads the clock
MaxClock == 1
\* most hours that pass between two reads of the clock
MaxDelta == 1

-----------------------------------------------------------------------------
(* Python values *)

Str(x) == [ty |-> "str", s |-> x, n |-> 0, d |-> <<>>]
IsoFormat(t) == [ty |-> "str", s |-> "isoformat", n |-> t, d |-> <<>>]
None == [ty |-> "NoneType", s |-> "", n |-> 0, d |-> <<>>]
Num(i) == [ty |-> "int", s |-> "", n |-> i, d |-> <<>>]
Dict(f) == [ty |-> "dict", s |-> "", n |-> 0, d |-> f]
List(q) == [ty |-> "list", s |-> "", n |-> 0, d |-> q]
EmptyDict == Dict(<<>>)

\* v.get(k, default) of a dict v
Get(v, k, default) == IF k \in DOMAIN v.d THEN v.d[k] ELSE default
\* only a dict has .get: anything else raises AttributeError
HasGet(v) == v.ty = "dict"
\* bool(v)
Truthy(v) ==
    CASE v.ty = "str" -> v.s # ""
      [] v.ty = "int" -> v.n # 0
      [] v.ty = "dict" -> DOMAIN v.d # {}
      [] v.ty = "list" -> Len(v.d) > 0
      [] OTHER -> FALSE
\* a or b
Or(a, b) == IF Truthy(a) THEN a ELSE b

NoError == [type |-> "", msg |-> "", detail |-> ""]
Raise(type, msg, detail) == [type |-> type, msg |-> msg, detail |-> detail]

-----------------------------------------------------------------------------
(* src/config.py *)

EnvNames == {"OPENAI_API_KEY", "GOOGLE_API_TOKEN", "CALENDAR_ID", "TIMEZONE"}
EnvValues == {"", "value"}
\* the process environment: a partial function, an unset variable is absent
Environments == UNION {[S -> EnvValues] : S \in SUBSET EnvNames}

\* os.getenv(name, default)
GetEnv(e, name, default) == IF name \in DOMAIN e THEN e[name] ELSE default

\* a and b, on strings
StrAnd(a, b) == IF a = "" THEN a ELSE b

\* fault: mock only when every credential is blank (or for and)
MockFlag_AllBlank(oa, g, c) == oa = "" /\ g = "" /\ c = ""
\* mock = not (oa and g and c)
MockFlag(oa, g, c) == StrAnd(StrAnd(oa, g), c) = ""

\* Config.load_from_env()
load_from_env(e) ==
    LET oa == GetEnv(e, "OPENAI_API_KEY", "")
        g == GetEnv(e, "GOOGLE_API_TOKEN", "")
        c == GetEnv(e, "CALENDAR_ID", "")
        tz == GetEnv(e, "TIMEZONE", "Europe/Paris")
    IN [OPENAI_API_KEY |-> oa, GOOGLE_API_TOKEN |-> g, CALENDAR_ID |-> c,
        TIMEZONE |-> tz, mock |-> MockFlag(oa, g, c)]

\* the value of cfg before the module-level assignment has run
Unloaded == [OPENAI_API_KEY |-> "", GOOGLE_API_TOKEN |-> "", CALENDAR_ID |-> "",
             TIMEZONE |-> "", mock |-> FALSE]

-----------------------------------------------------------------------------
(* Text *)

\* str.lower() on one character
LowerChar(c) ==
    CASE c = "A" -> "a" [] c = "C" -> "c" [] c = "D" -> "d" [] c = "E" -> "e"
      [] c = "M" -> "m" [] c = "P" -> "p" [] c = "R" -> "r" [] c = "S" -> "s"
      [] c = "T" -> "t"
      [] OTHER -> c
\* fault: the message is searched without being lowered
Lower_Identity(s) == s
\* str.lower()
Lower(s) == [i \in 1..Len(s) |-> LowerChar(s[i])]

\* sub in s
Contains(sub, s) ==
    \E i \in 1..(Len(s) - Len(sub) + 1) : SubSeq(s, i, i + Len(sub) - 1) = sub

RECURSIVE Join(_)
\* " ".join(words)
Join(words) ==
    IF Len(words) = 0 THEN <<>>
    ELSE IF Len(words) = 1 THEN words[1]
    ELSE words[1] \o <<" ">> \o Join(Tail(words))

CREATE == <<"c", "r", "e", "a", "t", "e">>
ADD == <<"a", "d", "d">>

\* "Create a meeting with Alex tomorrow at 2 PM"
DefaultMessage ==
    <<"C", "r", "e", "a", "t", "e", " ", "a", " ", "m", "e", "e", "t", "i", "n", "g",
      " ", "w", "i", "t", "h", " ", "A", "l", "e", "x", " ", "t", "o", "m", "o", "r",
      "r", "o", "w", " ", "a", "t", " ", "2", " ", "P", "M">>

\* command-line words tried in every position
Words == {<<"A", "d", "d">>, <<"s", "h", "o", "w">>, <<"a", "d">>, <<"d">>}
\* longer command lines
ArgvSamples ==
    { <<<<"A", "d", "d">>, <<"a">>, <<"m", "e", "e", "t", "i", "n", "g">>>>,
      <<<<"S", "h", "o", "w">>, <<"m", "e">>, <<"m", "y">>, <<"e", "v", "e", "n", "t", "s">>>>,
      <<<<"r", "e", "C", "R", "E", "A", "T", "E">>>>,
      <<<<"c", "r", "e">>, <<"a", "t", "e">>>>,
      <<<<"m", "y">>, <<"a", "d", "d", "r", "e", "s", "s">>>> }
RECURSIVE SeqsUpTo(_, _)
SeqsUpTo(S, k) ==
    IF k = 0 THEN {<<>>}
    ELSE LET shorter == SeqsUpTo(S, k - 1)
         IN shorter \cup {Append(q, x) : q \in shorter, x \in S}
Argvs == SeqsUpTo(Words, MaxArgs) \cup ArgvSamples

-----------------------------------------------------------------------------
(* interpret_user_request *)

\* timedelta(days=1): a day, in hours
HoursPerDay == 24
\* timedelta(days=1, hours=10)
StartOffset == HoursPerDay + 10
\* timedelta(days=1, hours=11)
EndOffset == HoursPerDay + 11

\* "create" in message.lower() or "add" in message.lower()
WantsCreate(message) ==
    Contains(CREATE, Lower(message)) \/ Contains(ADD, Lower(message))

\* the mock branch; now1 and now2 are the two values datetime.now() returns
MockIntent(message, now1, now2) ==
    IF WantsCreate(message)
    THEN Dict([action |-> Str("create"),
               event_title |-> Str("Team Meeting"),
               event_description |-> Str("Discuss ongoing projects"),
               start_date |-> IsoFormat(now1 + StartOffset),
               end_date |-> IsoFormat(now2 + EndOffset)])
    ELSE Dict([action |-> Str("get"),
               start_date |-> IsoFormat(now1),
               end_date |-> IsoFormat(now2 + HoursPerDay)])

\* if cfg.mock, in interpret_user_request
InterpretLive(c) == ~c.mock

\* Tokens of the language model's reply: braces, the members of a JSON object
\* (C: a full "create" intent, U: a "create" intent with an empty title,
\* G: a "get" intent, O: "action": "delete"), a word of prose, a number.
MemberTokens == {"C", "U", "G", "O"}
Tokens == {"{", "}", "w", "1"} \cup MemberTokens

Members(tok) ==
    CASE tok = "C" -> [action |-> Str("create"), event_title |-> Str("Lunch"),
                       event_description |-> Str("With Sarah"),
                       start_date |-> IsoFormat(50), end_date |-> IsoFormat(51)]
      [] tok = "U" -> [action |-> Str("create"), event_title |-> Str(""),
                       start_date |-> IsoFormat(50), end_date |-> IsoFormat(51)]
      [] tok = "G" -> [action |-> Str("get"),
                       start_date |-> IsoFormat(48), end_date |-> IsoFormat(72)]
      [] OTHER -> [action |-> Str("delete")]

\* json.loads(text): ok is FALSE where it raises
json_loads(txt) ==
    IF txt = <<"1">> THEN [ok |-> TRUE, val |-> Num(1)]
    ELSE IF txt = <<"{", "}">> THEN [ok |-> TRUE, val |-> EmptyDict]
    ELSE IF Len(txt) = 3 /\ txt[1] = "{" /\ txt[2] \in MemberTokens /\ txt[3] = "}"
         THEN [ok |-> TRUE, val |-> Dict(Members(txt[2]))]
    ELSE [ok |-> FALSE, val |-> None]

\* re.search(r"(\{.*\})", text, re.S): found is FALSE for no match; group is
\* the text from the first "{" to the last "}" after it (.* is greedy)
re_search(txt) ==
    LET opens == {i \in 1..Len(txt) : txt[i] = "{"}
        first == CHOOSE i \in opens : \A k \in opens : i <= k
        closes == {j \in 1..Len(txt) : txt[j] = "}" /\ j > first}
        last == CHOOSE j \in closes : \A k \in closes : k <= j
    IN IF opens = {} \/ closes = {} THEN [found |-> FALSE, group |-> <<>>]
       ELSE [found |-> TRUE, group |-> SubSeq(txt, first, last)]

\* lines 115-120: decode the reply of the model
ParseReply(txt) ==
    IF json_loads(txt).ok THEN [raised |-> FALSE, val |-> json_loads(txt).val]
    ELSE LET m == re_search(txt)
         IN IF ~m.found THEN [raised |-> FALSE, val |-> EmptyDict]
            ELSE IF json_loads(m.group).ok
                 THEN [raised |-> FALSE, val |-> json_loads(m.group).val]
            ELSE [raised |-> TRUE, val |-> None]

\* longer replies of the model
TextSamples ==
    { <<"{", "C", "}">>, <<"{", "G", "}">>, <<"{", "O", "}">>, <<"{", "U", "}">>,
      <<"w", "{", "G", "}", "w">>, <<"w", "{", "C", "}">>, <<"w", "{", "}", "w">>,
      <<"{", "G", "}", "w", "{", "O", "}">>, <<"{", "w", "}">>, <<"w", "w", "w">>,
      <<"}", "w", "{">> }
Texts == SeqsUpTo(Tokens, MaxTextLen) \cup TextSamples

OpenAICall == [api |-> "openai", method |-> "POST"]
CalendarPost == [api |-> "calendar", method |-> "POST"]
CalendarGet == [api |-> "calendar", method |-> "GET"]

-----------------------------------------------------------------------------
(* the calendar client and the reply *)

\* if cfg.mock, in create_event
CreateEventLive(c) == ~c.mock
\* fault: get_events without its mock gate
GetEventsLive_Ungated(c) == TRUE
\* if cfg.mock, in get_events
GetEventsLive(c) == ~c.mock

mock_create_event ==
    Dict([status |-> Str("mocked"),
          htmlLink |-> Str("https://calendar.google.com/mock/event")])

mock_get_events(start, end) ==
    List(<<Dict([summary |-> Str("Mock Meeting with Team"), start |-> start, end |-> end]),
           Dict([summary |-> Str("Demo Call"), start |-> start, end |-> end])>>)

\* An HTTP response: r.ok, r.text and what r.json() returns
\* (a value of type "invalid" where r.json() raises).
Response(ok, body, json) == [ok |-> ok, text |-> body, json |-> json]
NotJson == [ty |-> "invalid", s |-> "", n |-> 0, d |-> <<>>]
\* r before any request to the calendar provider has been answered
NoResponse == Response(TRUE, "", None)

CreateResponses ==
    { Response(TRUE, "created", Dict([id |-> Str("e1"),
                 htmlLink |-> Str("https://www.google.com/calendar/event?eid=e1")])),
      Response(TRUE, "created, no link", Dict([id |-> Str("e1")])),
      Response(TRUE, "", NotJson),
      Response(FALSE, "quota exceeded", Dict([error |-> Str("quota exceeded")])),
      Response(FALSE, "", NotJson) }

\* events of a listing: one with a time, an all-day one, one with no
\* summary and no start
EventKinds ==
    { Dict([summary |-> Str("Standup"), start |-> Dict([dateTime |-> IsoFormat(57)])]),
      Dict([summary |-> Str("Holiday"), start |-> Dict([date |-> Str("2024-01-01")])]),
      Dict([id |-> Str("e3")]) }

GetResponses ==
    { Response(TRUE, "listing", Dict([items |-> List(evs)])) :
          evs \in SeqsUpTo(EventKinds, MaxEvents) }
    \cup
    { Response(TRUE, "no items", Dict([kind |-> Str("calendar#events")])),
      Response(TRUE, "", NotJson),
      Response(FALSE, "not found", Dict([error |-> Str("not found")])),
      Response(FALSE, "", NotJson) }

\* the local variables of run_agent, from the intent
Title(d) == Or(Get(d, "event_title", None), Str("Untitled Event"))
Desc(d) == Get(d, "event_description", Str(""))
Start(d) == Get(d, "start_date", None)
End(d) == Get(d, "end_date", None)

\* fault: the listing as the default branch
Route_DefaultGet(action) == IF action = Str("create") THEN "create" ELSE "get"
\* the branch run_agent takes on data.get("action")
Route(action) ==
    IF action = Str("create") THEN "create"
    ELSE IF action = Str("get") THEN "get"
    ELSE "other"

\* the emoji of the source are named by their code points
CreatedPrefix == Str("(U+2705) Event '")
CreatedSuffix == Str("' created successfully!\n")
EventsHeader == Str("(U+1F4C5) Here are your events:\n")
NoEvents == Str("No events found in that range.")
Greeting ==
    Str("Hello! I can help you manage your Google Calendar (U+2014) ask me to create or check events.")

Returned(pieces) == [raised |-> FALSE, reply |-> pieces, error |-> NoError]
Raised(e) == [raised |-> TRUE, reply |-> <<>>, error |-> e]
AttributeError == Raise("AttributeError", "object has no attribute 'get'", "")

\* line 135: the reply to a create, a sequence of the pieces of the f-string
FormatCreated(title, res) ==
    IF ~HasGet(res) THEN Raised(AttributeError)
    ELSE Returned(<<CreatedPrefix, title, CreatedSuffix, Get(res, "htmlLink", None)>>)

\* line 145: one bullet line
Bullet(e, start) ==
    <<Str("- "), Get(e, "summary", Str("Untitled")), Str(" ("),
      Get(Get(e, "start", EmptyDict), "dateTime", start), Str(")\n")>>
\* line 145 raises unless e and e.get('start', {}) both have .get
BulletRaises(e) == ~HasGet(e) \/ ~HasGet(Get(e, "start", EmptyDict))

RECURSIVE Bullets(_, _)
Bullets(evs, start) ==
    IF Len(evs) = 0 THEN <<>>
    ELSE Bullet(Head(evs), start) \o Bullets(Tail(evs), start)

\* lines 141-146: the reply to a get
FormatEvents(evs, start) ==
    IF ~Truthy(evs) THEN Returned(<<NoEvents>>)
    ELSE IF evs.ty # "list" THEN Raised(AttributeError)
    ELSE IF \E i \in 1..Len(evs.d) : BulletRaises(evs.d[i]) THEN Raised(AttributeError)
    ELSE Returned(<<EventsHeader>> \o Bullets(evs.d, start))

\* fault: create_event without the check of r.ok
CreateOutcome_NoStatusCheck(resp, title) ==
    IF resp.json.ty = "invalid"
    THEN [result |-> None, out |-> Raised(Raise("JSONDecodeError", "", ""))]
    ELSE [result |-> resp.json, out |-> FormatCreated(title, resp.json)]

\* lines 59-61 and 135: create_event after the POST has been answered
CreateOutcome(resp, title) ==
    IF ~resp.ok
    THEN [result |-> None,
          out |-> Raised(Raise("Exception", "Google Calendar API error: ", resp.text))]
    ELSE IF resp.json.ty = "invalid"
    THEN [result |-> None, out |-> Raised(Raise("JSONDecodeError", "", ""))]
    ELSE [result |-> resp.json, out |-> FormatCreated(title, resp.json)]

\* lines 72-74 and 141-146: get_events after the GET has been answered
GetOutcome(resp, start) ==
    IF ~resp.ok
    THEN [events |-> None,
          out |-> Raised(Raise("Exception", "Failed to retrieve events: ", resp.text))]
    ELSE IF resp.json.ty = "invalid"
    THEN [events |-> None, out |-> Raised(Raise("JSONDecodeError", "", ""))]
    ELSE IF ~HasGet(resp.json) THEN [events |-> None, out |-> Raised(AttributeError)]
    ELSE LET evs == Get(resp.json, "items", List(<<>>))
         IN [events |-> evs, out |-> FormatEvents(evs, start)]

-----------------------------------------------------------------------------
Init ==
    /\ env \in Environments
    /\ cfg = Unloaded
    /\ pc = "import"
    /\ user_message = <<>>
    /\ clock = <<>>
    /\ text = <<>>
    /\ data = None
    /\ net = <<>>
    /\ r = NoResponse
    /\ result = None
    /\ events = None
    /\ reply = <<>>
    /\ printed = FALSE
    /\ error = NoError

\* cfg = Config.load_from_env(), at import of main.py
LoadConfig ==
    /\ pc = "import"
    /\ cfg' = load_from_env(env)
    /\ pc' = "main"
    /\ UNCHANGED <<env, user_message, clock, text, data, net, r, result, events, reply, printed, error>>

\* main() up to the call of run_agent
Main(argv) ==
    /\ pc = "main"
    /\ user_message' = (IF Join(argv) # <<>> THEN Join(argv) ELSE DefaultMessage)
    /\ pc' = "interpret"
    /\ UNCHANGED <<env, cfg, clock, text, data, net, r, result, events, reply, printed, error>>

\* interpret_user_request, mock branch (lines 83-97)
InterpretMock(now1, delta) ==
    /\ pc = "interpret"
    /\ ~InterpretLive(cfg)
    /\ clock' = <<now1, now1 + delta>>
    /\ data' = MockIntent(user_message, now1, now1 + delta)
    /\ pc' = "dispatch"
    /\ UNCHANGED <<env, cfg, user_message, text, net, r, result, events, reply, printed, error>>

\* interpret_user_request, live branch: the request is sent (lines 99-113)
LlmRequest ==
    /\ pc = "interpret"
    /\ InterpretLive(cfg)
    /\ net' = Append(net, OpenAICall)
    /\ pc' = "llm_wait"
    /\ UNCHANGED <<env, cfg, user_message, clock, text, data, r, result, events, reply, printed, error>>

\* the completion arrives and is decoded (lines 114-120)
LlmRespond(content) ==
    /\ pc = "llm_wait"
    /\ text' = content
    /\ LET parsed == ParseReply(content)
       IN IF parsed.raised
          THEN /\ pc' = "failed"
               /\ error' = Raise("JSONDecodeError", "", "")
               /\ data' = data
          ELSE /\ pc' = "dispatch"
               /\ data' = parsed.val
               /\ error' = error
    /\ UNCHANGED <<env, cfg, user_message, clock, net, r, result, events, reply, printed>>

\* client.chat.completions.create raises (line 106)
LlmError ==
    /\ pc = "llm_wait"
    /\ pc' = "failed"
    /\ error' = Raise("APIError", "", "")
    /\ UNCHANGED <<env, cfg, user_message, clock, text, data, net, r, result, events, reply, printed>>

\* fault: a failed call is tried again
AfterCall_Retry(out) == IF out.raised THEN "dispatch" ELSE "print"
\* a raise is caught nowhere and ends the run; a return goes to print (line 155-156)
AfterCall(out) == IF out.raised THEN "failed" ELSE "print"

\* what a finished call leaves: a reply to print, or an exception
Finish(out) ==
    /\ pc' = AfterCall(out)
    /\ reply' = out.reply
    /\ error' = out.error

\* run_agent from line 127 to the calendar request, or to its return in mock
\* mode and for an unrecognized action
Dispatch ==
    /\ pc = "dispatch"
    /\ IF ~HasGet(data)
       THEN Finish(Raised(AttributeError)) /\ UNCHANGED <<net, result, events>>
       ELSE LET branch == Route(Get(data, "action", None))
            IN CASE branch = "create" ->
                     IF CreateEventLive(cfg)
                     THEN /\ net' = Append(net, CalendarPost)
                          /\ pc' = "create_wait"
                          /\ UNCHANGED <<result, events, reply, error>>
                     ELSE /\ result' = mock_create_event
                          /\ Finish(FormatCreated(Title(data), mock_create_event))
                          /\ UNCHANGED <<net, events>>
                 [] branch = "get" ->
                     IF GetEventsLive(cfg)
                     THEN /\ net' = Append(net, CalendarGet)
                          /\ pc' = "get_wait"
                          /\ UNCHANGED <<result, events, reply, error>>
                     ELSE /\ events' = mock_get_events(Start(data), End(data))
                          /\ Finish(FormatEvents(mock_get_events(Start(data), End(data)),
                                                 Start(data)))
                          /\ UNCHANGED <<net, result>>
                 [] OTHER ->
                     /\ Finish(Returned(<<Greeting>>))
                     /\ UNCHANGED <<net, result, events>>
    /\ UNCHANGED <<env, cfg, user_message, clock, text, data, r, printed>>

\* the calendar provider answers the POST (lines 58-61, 135)
CreateRespond(resp) ==
    /\ pc = "create_wait"
    /\ r' = resp
    /\ result' = CreateOutcome(resp, Title(data)).result
    /\ Finish(CreateOutcome(resp, Title(data)).out)
    /\ UNCHANGED <<env, cfg, user_message, clock, text, data, net, events, printed>>

\* the calendar provider answers the GET (lines 71-74, 141-146)
GetRespond(resp) ==
    /\ pc = "get_wait"
    /\ r' = resp
    /\ events' = GetOutcome(resp, Start(data)).events
    /\ Finish(GetOutcome(resp, Start(data)).out)
    /\ UNCHANGED <<env, cfg, user_message, clock, text, data, net, result, printed>>

\* print(reply), line 156
PrintReply ==
    /\ pc = "print"
    /\ printed' = TRUE
    /\ pc' = "done"
    /\ UNCHANGED <<env, cfg, user_message, clock, text, data, net, r, result, events, reply, error>>

Next ==
    \/ LoadConfig
    \/ \E argv \in Argvs : Main(argv)
    \/ \E now1 \in 0..MaxClock, delta \in 0..MaxDelta : InterpretMock(now1, delta)
    \/ LlmRequest
    \/ \E content \in Texts : LlmRespond(content)
    \/ LlmError
    \/ Dispatch
    \/ \E resp \in CreateResponses : CreateRespond(resp)
    \/ \E resp \in GetResponses : GetRespond(resp)
    \/ PrintReply

Spec == Init /\ [][Next]_vars

-----------------------------------------------------------------------------
(* Properties *)

Loaded == pc # "import"
Interpreted == pc \in {"dispatch", "create_wait", "get_wait", "print", "done", "failed"}
Dispatched == pc \in {"create_wait", "get_wait", "print", "done", "failed"}
Ended == pc \in {"done", "failed"}
CalendarCalls == {i \in 1..Len(net) : net[i].api = "calendar"}
Action == Get(data, "action", None)

\* word occurs in msg, letters compared without regard to case
UpperOf(c) ==
    CASE c = "a" -> "A" [] c = "c" -> "C" [] c = "d" -> "D" [] c = "e" -> "E"
      [] c = "r" -> "R" [] c = "t" -> "T" [] OTHER -> c
Mentions(word, msg) ==
    \E i \in 0..(Len(msg) - Len(word)) :
        \A k \in 1..Len(word) : msg[i + k] \in {word[k], UpperOf(word[k])}
AsksToCreate == Mentions(CREATE, user_message) \/ Mentions(ADD, user_message)

\* C1: when the mock flag is true no request is ever sent to the language
\* model or to the calendar provider, and the intent, the create result and
\* the listing are the fixed placeholder data.
C1_MockMakesNoNetworkCall ==
    (Loaded /\ cfg.mock) =>
        /\ net = <<>>
        /\ pc \notin {"llm_wait", "create_wait", "get_wait"}
        /\ r = NoResponse
        /\ result \in {None, mock_create_event}
        /\ events # None =>
               /\ events.ty = "list" /\ Len(events.d) = 2
               /\ events.d[1].d.summary = Str("Mock Meeting with Team")
               /\ events.d[2].d.summary = Str("Demo Call")
        /\ Interpreted => Action \in {Str("create"), Str("get")}

\* C1 witness: a mock run that created an event and printed its reply
C1_Witness ==
    /\ cfg.mock /\ pc = "done" /\ printed
    /\ result = mock_create_event /\ net = <<>>

\* C2: in mock mode a message with neither "create" nor "add" runs to a
\* reply without error: the intent is "get", the two mock events come back,
\* and the reply is the header followed by one line per mock event.
C2_MockGetReplies ==
    (Loaded /\ cfg.mock /\ Dispatched /\ ~AsksToCreate) =>
        /\ pc # "failed"
        /\ Action = Str("get")
        /\ events.ty = "list" /\ Len(events.d) = 2
        /\ Len(reply) = 11
        /\ reply[1] = EventsHeader
        /\ reply[3] = Str("Mock Meeting with Team")
        /\ reply[8] = Str("Demo Call")

\* C3: in live mode no text the language model returns ends the run with an
\* error: a run that fails before any calendar request was sent failed
\* because the request to the model itself failed.
C3_MalformedOutputNeverRaises ==
    (Loaded /\ ~cfg.mock /\ pc = "failed" /\ CalendarCalls = {}) =>
        error.type = "APIError"

\* C4: in live mode a non-success answer of the calendar provider ends the
\* run with an exception carrying the body of the response; exactly one
\* request went to the provider, and no reply is returned or printed.
C4_CalendarErrorAborts ==
    (r # NoResponse /\ ~r.ok) =>
        /\ pc = "failed"
        /\ error.type = "Exception"
        /\ error.detail = r.text
        /\ reply = <<>> /\ ~printed
        /\ Cardinality(CalendarCalls) = 1
        /\ Len(net) = 2

\* C4 witness: the provider refused a request and the run has failed
C4_Witness ==
    /\ ~cfg.mock /\ pc = "failed" /\ ~r.ok
    /\ r.text = "quota exceeded" /\ error.detail = "quota exceeded"

\* C5: in mock mode a message containing "create" or "add" in any letter
\* case gives the intent "create" with title "Team Meeting", a non-empty
\* description and an end after its start; create_event returns the mock
\* acknowledgment and the reply starts "Event 'Team Meeting' created
\* successfully!".
C5_MockCreate ==
    (Loaded /\ cfg.mock /\ Interpreted /\ AsksToCreate) =>
        /\ Action = Str("create")
        /\ Get(data, "event_title", None) = Str("Team Meeting")
        /\ Get(data, "event_description", None).ty = "str"
        /\ Get(data, "event_description", None).s # ""
        /\ End(data).n > Start(data).n
        /\ Dispatched =>
               /\ pc \in {"print", "done"}
               /\ result = mock_create_event
               /\ Len(reply) = 4
               /\ SubSeq(reply, 1, 3) = <<CreatedPrefix, Str("Team Meeting"), CreatedSuffix>>

\* C5 witness: "Add" with a capital letter, the clock moving between the
\* two reads, and the reply printed
C5_Witness ==
    /\ cfg.mock /\ pc = "done" /\ printed
    /\ Len(user_message) >= 3 /\ SubSeq(user_message, 1, 3) = <<"A", "d", "d">>
    /\ Len(clock) = 2 /\ clock[2] > clock[1]
    /\ Len(reply) = 4 /\ reply[2] = Str("Team Meeting")

\* C6: in mock mode a message with neither "create" nor "add" gives the
\* intent "get" whose start_date is the time of the call and whose end_date
\* is exactly 24 hours after the start_date, whatever time passes between
\* the reads of the clock.
C6_MockGetRangeIsOneDay ==
    (Loaded /\ cfg.mock /\ Interpreted /\ ~AsksToCreate) =>
        /\ Action = Str("get")
        /\ Start(data).n = clock[1]
        /\ End(data).n = Start(data).n + 24

\* C7: loading the configuration never fails; the mock flag is true exactly
\* when one of the three credentials is unset or empty, whatever TIMEZONE
\* is; TIMEZONE defaults to "Europe/Paris" when unset; and the flag never
\* changes after the load.
C7_State ==
    /\ pc = "import" => ENABLED LoadConfig
    /\ Loaded =>
        /\ cfg.mock <=> \E k \in {"OPENAI_API_KEY", "GOOGLE_API_TOKEN", "CALENDAR_ID"} :
                            k \notin DOMAIN env \/ env[k] = ""
        /\ cfg.TIMEZONE = (IF "TIMEZONE" \in DOMAIN env THEN env["TIMEZONE"]
                           ELSE "Europe/Paris")
C7_MockFlag == []C7_State /\ [][Loaded => cfg'.mock = cfg.mock]_vars

\* C7 witness: a finished run whose credentials are all set but one is
\* empty, with TIMEZONE unset
C7_Witness ==
    /\ Ended /\ cfg.mock
    /\ {"OPENAI_API_KEY", "GOOGLE_API_TOKEN", "CALENDAR_ID"} = DOMAIN env
    /\ env["OPENAI_API_KEY"] = "value" /\ env["GOOGLE_API_TOKEN"] = "value"
    /\ env["CALENDAR_ID"] = ""
    /\ cfg.TIMEZONE = "Europe/Paris"

\* C8: a run sends at most two requests: at most one to the language model,
\* at most one to the calendar provider, the latter only after the model's
\* answer has been received and decoded; nothing is sent twice and a run
\* never sends both a create and a list request.
C8_AtMostTwoCallsInOrder ==
    /\ net \in {<<>>, <<OpenAICall>>, <<OpenAICall, CalendarPost>>,
                <<OpenAICall, CalendarGet>>}
    /\ pc = "llm_wait" => net = <<OpenAICall>>
    /\ CalendarCalls # {} => (text # <<>> /\ HasGet(data) /\ Dispatched)

\* C8 witness: a live run that sent both requests and printed its reply
C8_Witness == pc = "done" /\ net = <<OpenAICall, CalendarGet>> /\ r.ok

\* C9: for a "get" intent the reply is exactly "No events found in that
\* range." for an empty listing, and otherwise the header followed by one
\* bullet line per event, in order, with the event's summary and the
\* event's own start time, or the requested start time if it has none.
OwnStart(e) ==
    IF "start" \notin DOMAIN e.d THEN Start(data)
    ELSE IF e.d.start.ty # "dict" THEN e.d.start
    ELSE IF "dateTime" \in DOMAIN e.d.start.d THEN e.d.start.d.dateTime
    ELSE Start(data)
C9_GetReply ==
    (Interpreted /\ HasGet(data) /\ Action = Str("get") /\ events # None) =>
        /\ pc \in {"print", "done"}
        /\ IF Len(events.d) = 0 THEN reply = <<NoEvents>>
           ELSE /\ Len(reply) = 1 + 5 * Len(events.d)
                /\ reply[1] = EventsHeader
                /\ \A i \in 1..Len(events.d) :
                       /\ "summary" \in DOMAIN events.d[i].d =>
                              reply[5 * i - 2] = events.d[i].d.summary
                       /\ reply[5 * i] = OwnStart(events.d[i])

\* C10: for an intent whose action is neither "create" nor "get", or that
\* has no action at all, no request goes to the calendar client and the
\* reply is the fixed greeting.
C10_UnrecognizedAction ==
    (Dispatched /\ HasGet(data) /\ Action \notin {Str("create"), Str("get")}) =>
        /\ pc \in {"print", "done"}
        /\ reply = <<Greeting>>
        /\ CalendarCalls = {}
        /\ r = NoResponse /\ result = None /\ events = None

\* C10 witness: the model answered with an object that has no action, and
\* the greeting was printed
C10_Witness ==
    /\ pc = "done" /\ printed /\ data = EmptyDict
    /\ reply = <<Greeting>> /\ net = <<OpenAICall>>
====
